---- MODULE Spec2Model ----
(***************************************************************************)
(* Explicit-free-list allocator (mm.c): boundary-tagged blocks in a        *)
(* growable byte region, a doubly-linked free list threaded through the    *)
(* payload of free blocks, immediate coalescing, first fit with a          *)
(* repeat-pattern escape, and an in-place realloc policy.                  *)
(*                                                                         *)
(* The region is modelled word by word.  Addresses and sizes are byte      *)
(* counts, as in the C code.  mem is a sparse map from word addresses to   *)
(* word values: a word that nobody has written reads as junk.              *)
(***************************************************************************)
EXTENDS Integers, Naturals, Sequences, FiniteSets, TLC

(* ---- bounds of the exploration ---- *)
MaxOps  == 5       \* calls and stores of the caller per run (after mm_init)
MaxLive == 3       \* blocks held by the caller at once
MaxHeap == 4200    \* bytes the region provider is able to hand out
MaxDeep == 9       \* calls per run of SpecDeep
MaxRepeat == 40    \* calls per run of SpecRepeat
RepeatRun == 35    \* calls of mm_malloc(RepeatSize) that open a run of SpecRepeat
RecentLive == 2    \* blocks that the caller of SpecRepeat may free
RepeatHeap == 12400  \* bytes of a provider that refuses no request of SpecRepeat

(* ---- program constants ---- *)
CHUNKSIZE   == 4096     \* 1 << 12
RepeatLimit == 30       \* repeat_counter > 30
MinExtend   == 16       \* extend_heap: if (size < 16) size = 16
InitWords   == 8        \* mm_init: mem_sbrk(8*WSIZE)
FirstWords  == 4        \* mm_init: extend_heap(4)
HeapBase    == 8192     \* mem_heap_lo(): address of the first region byte
Null        == 0
SbrkFail    == -1       \* (void *)-1

WordSizes    == {4, 8}       \* sizeof(void *) on the supported targets
JunkWords    == {0, 1}       \* contents of region words nobody has written
MallocSizes  == {1, 56}      \* sizes the caller passes to mm_malloc
ReallocSizes == {0, 24, 40}  \* sizes the caller passes to mm_realloc
DeepMalloc   == {1, 40}      \* the same, in SpecDeep
DeepRealloc  == {24}
TightLimits  == {0, 40, 64, 96}  \* capacities of a provider that refuses early
NullSizes    == {0, 1, 24}       \* sizes the caller passes to mm_realloc(NULL, size)
\* size_t arguments of 2^31 and above, as <<hi, lo>> with size = hi * 2^31 + lo
WideSizes    == {<<1, 0>>, <<1, 24>>, <<2, 0>>, <<3, 0>>}

VARIABLES
  W,                  \* WSIZE = sizeof(void *)
  junk,               \* what a never-written region word reads as
  mem,                \* region contents, word address -> word value
  brk,                \* mem_brk of the region provider
  limit,              \* bytes the region provider is able to hand out
  heap_listp,
  free_list_start,
  last_malloced_size, \* static in find_fit
  repeat_counter,     \* static in find_fit
  phase,              \* "start", "ready", "failed", "crashed", "hung"
  live,               \* caller's view: payload address -> requested size
  fresh,              \* the addresses in live that mm_malloc returned
  nops,               \* number of public calls made
  last                \* the call just made (its size is hi * 2^31 + n; for free, n is the size
                      \* p was requested with), its result, the words it wrote
                      \* and the footers coalesce read

vars == <<W, junk, mem, brk, limit, heap_listp, free_list_start, last_malloced_size,
          repeat_counter, phase, live, fresh, nops, last>>

(* ---- macros ---- *)
WSIZE == W
DSIZE == 2 * WSIZE

MAX(x, y) == IF x > y THEN x ELSE y

\* (size) | (alloc), alloc being 0 or 1
PACK(size, alloc) == IF alloc = 1 /\ size % 2 = 0 THEN size + 1 ELSE size

\* A dereference of p is served by the region only for word-aligned
\* addresses at or above the region base; anything else faults.
Accessible(p) == p >= HeapBase /\ p % WSIZE = 0

GET(m, p) == IF p \in DOMAIN m.mem THEN m.mem[p] ELSE junk

Fault(m) == [m EXCEPT !.st = "crashed"]

\* the reads of the addresses ps fault unless every one is accessible
Need(m, ps) == IF m.st = "ok" /\ (\E p \in ps : ~Accessible(p)) THEN Fault(m) ELSE m

\* store of len bytes of a word at p (len = WSIZE except for memcpy's tail)
Store(m, p, val, len) ==
  IF m.st # "ok" THEN m
  ELSE IF ~Accessible(p) THEN Fault(m)
  ELSE [m EXCEPT !.mem = [a \in (DOMAIN m.mem) \cup {p} |-> IF a = p THEN val ELSE m.mem[a]],
                 !.wlog = @ \cup {<<p, len>>}]

PUT(m, p, val) == Store(m, p, val, WSIZE)

GET_SIZE(m, p)  == GET(m, p) - (GET(m, p) % DSIZE)    \* GET(p) & ~(DSIZE - 1)
GET_ALLOC(m, p) == GET(m, p) % 2                      \* GET(p) & 0x1

HDRP(bp)    == bp - WSIZE
FTRP(m, bp) == bp + GET_SIZE(m, HDRP(bp)) - DSIZE

NEXT_BLK(m, bp) == bp + GET_SIZE(m, HDRP(bp))
PREV_BLK(m, bp) == bp - GET_SIZE(m, bp - DSIZE)

GET_NEXT_PTR(m, bp) == GET(m, bp + WSIZE)
GET_PREV_PTR(m, bp) == GET(m, bp)

SET_NEXT_PTR(m, bp, qp) == PUT(m, bp + WSIZE, qp)
SET_PREV_PTR(m, bp, qp) == PUT(m, bp, qp)

(* ---- region provider ---- *)
\* mem_sbrk: grow the region by incr bytes; the old break, or (void *)-1
mem_sbrk(m, incr) ==
  IF m.st # "ok" THEN m
  ELSE IF m.brk + incr > HeapBase + limit THEN [m EXCEPT !.ret = SbrkFail]
  ELSE [m EXCEPT !.ret = m.brk, !.brk = m.brk + incr]

(* ---- sequencing ---- *)
\* the value v of one statement, then the rest F of the function body
Then(v, F(_)) == F(v)

(* ---- free list ---- *)
insert_in_free_list(m, bp) ==
  Then(SET_NEXT_PTR(m, bp, m.fls), LAMBDA m1 :
  Then(SET_PREV_PTR(m1, m1.fls, bp), LAMBDA m2 :
  Then(SET_PREV_PTR(m2, bp, Null), LAMBDA m3 :
    IF m3.st # "ok" THEN m3 ELSE [m3 EXCEPT !.fls = bp])))

\* remove_from_free_list that leaves free_list_start alone when bp is the head
remove_from_free_list_kept(m0, bp) ==
  Then(Need(m0, {bp, bp + WSIZE}), LAMBDA m :
    IF m.st # "ok" THEN m
    ELSE
      Then(IF GET_PREV_PTR(m, bp) # Null
           THEN SET_NEXT_PTR(m, GET_PREV_PTR(m, bp), GET_NEXT_PTR(m, bp))
           ELSE m, LAMBDA m1 :
        SET_PREV_PTR(m1, GET_NEXT_PTR(m1, bp), GET_PREV_PTR(m1, bp))))

remove_from_free_list(m0, bp) ==
  Then(Need(m0, {bp, bp + WSIZE}), LAMBDA m :
    IF m.st # "ok" THEN m
    ELSE
      Then(IF GET_PREV_PTR(m, bp) # Null
           THEN SET_NEXT_PTR(m, GET_PREV_PTR(m, bp), GET_NEXT_PTR(m, bp))
           ELSE [m EXCEPT !.fls = GET_NEXT_PTR(m, bp)], LAMBDA m1 :
        SET_PREV_PTR(m1, GET_NEXT_PTR(m1, bp), GET_PREV_PTR(m1, bp))))

(* ---- coalesce ---- *)
\* the end of coalesce: header and footer of b set to (sz, free), b pushed
\* on the free list and returned
Finish(mm, b, sz) ==
  Then(PUT(mm, HDRP(b), PACK(sz, 0)), LAMBDA a1 :
  Then(PUT(a1, FTRP(a1, b), PACK(sz, 0)), LAMBDA a2 :
  Then(insert_in_free_list(a2, b), LAMBDA a3 :
    [a3 EXCEPT !.ret = b])))

\* the three merging cases of coalesce, entered with the flags and size read
Merged(m, bp, PREV_ALLOC, NEXT_ALLOC, size) ==
  IF PREV_ALLOC = 1 /\ NEXT_ALLOC = 0 THEN
    Finish(remove_from_free_list(m, NEXT_BLK(m, bp)), bp,
           size + GET_SIZE(m, HDRP(NEXT_BLK(m, bp))))
  ELSE IF PREV_ALLOC = 0 /\ NEXT_ALLOC = 1 THEN
    Finish(remove_from_free_list(m, PREV_BLK(m, bp)), PREV_BLK(m, bp),
           size + GET_SIZE(m, HDRP(PREV_BLK(m, bp))))
  ELSE
    Then(remove_from_free_list(m, PREV_BLK(m, bp)), LAMBDA m1 :
    Then(remove_from_free_list(m1, NEXT_BLK(m1, bp)), LAMBDA m2 :
      Finish(m2, PREV_BLK(m2, bp),
             size + GET_SIZE(m, HDRP(PREV_BLK(m, bp)))
                  + GET_SIZE(m, HDRP(NEXT_BLK(m, bp))))))

\* rlog notes the read of the backward neighbour's footer: the block, the
\* address read (PREV_BLK reads bp - DSIZE) and whether that word has ever
\* been written
coalesce(m0, bp) ==
  Then(Need([m0 EXCEPT !.rlog = @ \cup {<<bp, bp - DSIZE, (bp - DSIZE) \in DOMAIN m0.mem>>}],
            {HDRP(bp), HDRP(NEXT_BLK(m0, bp)), bp - DSIZE,
             HDRP(PREV_BLK(m0, bp)), FTRP(m0, PREV_BLK(m0, bp))}), LAMBDA m :
    IF m.st # "ok" THEN m
    ELSE
      Then(GET_ALLOC(m, HDRP(NEXT_BLK(m, bp))), LAMBDA NEXT_ALLOC :
      Then(IF GET_ALLOC(m, FTRP(m, PREV_BLK(m, bp))) # 0
              \/ PREV_BLK(m, bp) = bp THEN 1 ELSE 0, LAMBDA PREV_ALLOC :
        IF PREV_ALLOC = 1 /\ NEXT_ALLOC = 1
        THEN [insert_in_free_list(m, bp) EXCEPT !.ret = bp]
        ELSE Merged(m, bp, PREV_ALLOC, NEXT_ALLOC, GET_SIZE(m, HDRP(bp))))))

(* ---- heap extension ---- *)
\* Extended with the provider's refusal tested as mm_init tests it: against
\* NULL instead of (void *)-1
Extended_null(m, bp, size) ==
  IF m.st # "ok" THEN m
  ELSE IF bp = Null THEN [m EXCEPT !.ret = Null]
  ELSE
    Then(PUT(m, HDRP(bp), PACK(size, 0)), LAMBDA m1 :
    Then(PUT(m1, FTRP(m1, bp), PACK(size, 0)), LAMBDA m2 :
    Then(PUT(m2, HDRP(NEXT_BLK(m2, bp)), PACK(0, 1)), LAMBDA m3 :
      coalesce(m3, bp))))

\* extend_heap from its call of mem_sbrk on, m being what mem_sbrk left
Extended(m, bp, size) ==
  IF m.st # "ok" THEN m
  ELSE IF bp = SbrkFail THEN [m EXCEPT !.ret = Null]
  ELSE
    Then(PUT(m, HDRP(bp), PACK(size, 0)), LAMBDA m1 :
    Then(PUT(m1, FTRP(m1, bp), PACK(size, 0)), LAMBDA m2 :
    Then(PUT(m2, HDRP(NEXT_BLK(m2, bp)), PACK(0, 1)), LAMBDA m3 :
      coalesce(m3, bp))))

extend_heap(m0, words) ==
  Then(IF words % 2 = 1 THEN (words + 1) * WSIZE ELSE words * WSIZE, LAMBDA sz0 :
  Then(IF sz0 < MinExtend THEN MinExtend ELSE sz0, LAMBDA size :
  Then(mem_sbrk(m0, size), LAMBDA m :
    Extended(m, m.ret, size))))

(* ---- find_fit ---- *)
\* the for loop of find_fit, entered at bp; seen holds the blocks already
\* visited, so a walk that comes back to one of them never ends
RECURSIVE FitWalk(_, _, _, _)
FitWalk(m0, bp, asize, seen) ==
  Then(Need(m0, {HDRP(bp)}), LAMBDA m :
    IF m.st # "ok" THEN m
    ELSE IF GET_ALLOC(m, HDRP(bp)) # 0 THEN [m EXCEPT !.ret = Null]
    ELSE IF asize <= GET_SIZE(m, HDRP(bp)) THEN [m EXCEPT !.lms = asize, !.ret = bp]
    ELSE IF bp \in seen THEN [m EXCEPT !.st = "hung"]
    ELSE IF ~Accessible(bp + WSIZE) THEN Fault(m)
    ELSE FitWalk(m, GET_NEXT_PTR(m, bp), asize, seen \cup {bp}))

\* find_fit with a walk that starts at the second block of the list
find_fit_second(m, asize) ==
  IF m.st # "ok" THEN m
  ELSE IF m.lms = asize /\ m.rc > RepeatLimit THEN
    [extend_heap(m, MAX(asize, 4 * WSIZE) \div 4) EXCEPT !.path = "escape"]
  ELSE FitWalk([m EXCEPT !.rc = IF m.lms = asize THEN m.rc + 1 ELSE 0,
                         !.path = "walk"],
               GET_NEXT_PTR(m, m.fls), asize, {})

\* find_fit with the escape's word count taken by a division by WSIZE
find_fit_wsize(m, asize) ==
  IF m.st # "ok" THEN m
  ELSE IF m.lms = asize /\ m.rc > RepeatLimit THEN
    [extend_heap(m, MAX(asize, 4 * WSIZE) \div WSIZE) EXCEPT !.path = "escape"]
  ELSE FitWalk([m EXCEPT !.rc = IF m.lms = asize THEN m.rc + 1 ELSE 0,
                         !.path = "walk"],
               m.fls, asize, {})

find_fit(m, asize) ==
  IF m.st # "ok" THEN m
  ELSE IF m.lms = asize /\ m.rc > RepeatLimit THEN
    [extend_heap(m, MAX(asize, 4 * WSIZE) \div 4) EXCEPT !.path = "escape"]
  ELSE FitWalk([m EXCEPT !.rc = IF m.lms = asize THEN m.rc + 1 ELSE 0,
                         !.path = "walk"],
               m.fls, asize, {})

(* ---- place ---- *)
\* the two branches of place, csize being the size read from bp's header
Placed(m, bp, asize, csize) ==
  IF csize - asize >= 4 * WSIZE THEN
    Then(PUT(m, HDRP(bp), PACK(asize, 1)), LAMBDA m1 :
    Then(PUT(m1, FTRP(m1, bp), PACK(asize, 1)), LAMBDA m2 :
    Then(remove_from_free_list(m2, bp), LAMBDA m3 :
    Then(NEXT_BLK(m3, bp), LAMBDA nb :
    Then(PUT(m3, HDRP(nb), PACK(csize - asize, 0)), LAMBDA m4 :
    Then(PUT(m4, FTRP(m4, nb), PACK(csize - asize, 0)), LAMBDA m5 :
      coalesce(m5, nb)))))))
  ELSE
    Then(PUT(m, HDRP(bp), PACK(csize, 1)), LAMBDA m1 :
    Then(PUT(m1, FTRP(m1, bp), PACK(csize, 1)), LAMBDA m2 :
      remove_from_free_list(m2, bp)))

place(m0, bp, asize) ==
  Then(Need(m0, {HDRP(bp)}), LAMBDA m :
    IF m.st # "ok" THEN m
    \* csize - asize is unsigned and would wrap below zero; "wrapped" marks
    \* that case, which NoWrap shows no call reaches
    ELSE IF GET_SIZE(m, HDRP(bp)) < asize THEN [m EXCEPT !.st = "wrapped"]
    ELSE Placed(m, bp, asize, GET_SIZE(m, HDRP(bp))))

(* ---- mm_init ---- *)
\* Initialised with a first block of CHUNKSIZE bytes in place of 4 words
Initialised_chunk(m, hl) ==
  IF hl = Null THEN [m EXCEPT !.hlp = hl, !.ret = -1]
  ELSE
    Then(PUT([m EXCEPT !.hlp = hl], hl, 0), LAMBDA m1 :
    Then(PUT(m1, hl + (1 * WSIZE), PACK(DSIZE, 1)), LAMBDA m2 :
    Then(PUT(m2, hl + (2 * WSIZE), PACK(DSIZE, 1)), LAMBDA m3 :
    Then(PUT(m3, hl + (3 * WSIZE), PACK(0, 1)), LAMBDA m4 :
    Then(IF m4.st # "ok" THEN m4 ELSE [m4 EXCEPT !.fls = hl + 2 * WSIZE], LAMBDA m5 :
    Then(extend_heap(m5, CHUNKSIZE \div WSIZE), LAMBDA m6 :
      IF m6.st # "ok" THEN m6
      ELSE IF m6.ret = Null THEN [m6 EXCEPT !.ret = -1]
      ELSE [m6 EXCEPT !.ret = 0]))))))

\* mm_init from its call of mem_sbrk on, hl being the address returned
Initialised(m, hl) ==
  IF hl = Null THEN [m EXCEPT !.hlp = hl, !.ret = -1]
  ELSE
    Then(PUT([m EXCEPT !.hlp = hl], hl, 0), LAMBDA m1 :
    Then(PUT(m1, hl + (1 * WSIZE), PACK(DSIZE, 1)), LAMBDA m2 :
    Then(PUT(m2, hl + (2 * WSIZE), PACK(DSIZE, 1)), LAMBDA m3 :
    Then(PUT(m3, hl + (3 * WSIZE), PACK(0, 1)), LAMBDA m4 :
    Then(IF m4.st # "ok" THEN m4 ELSE [m4 EXCEPT !.fls = hl + 2 * WSIZE], LAMBDA m5 :
    Then(extend_heap(m5, FirstWords), LAMBDA m6 :
      IF m6.st # "ok" THEN m6
      ELSE IF m6.ret = Null THEN [m6 EXCEPT !.ret = -1]
      ELSE [m6 EXCEPT !.ret = 0]))))))

mm_init(m0) ==
  Then(mem_sbrk(m0, InitWords * WSIZE), LAMBDA m : Initialised(m, m.ret))

(* ---- mm_malloc ---- *)
\* the adjusted block size of a request
Adjust(size) ==
  IF size <= DSIZE THEN 2 * DSIZE
  ELSE DSIZE * ((size + DSIZE + (DSIZE - 1)) \div DSIZE)

\* place(bp, asize); return bp
PlaceAndReturn(m, bp, asize, path) ==
  Then(place(m, bp, asize), LAMBDA d :
    [d EXCEPT !.ret = bp, !.path = path])

\* mm_malloc after find_fit, which left f
Fitted(f, asize) ==
  IF f.st # "ok" THEN f
  ELSE IF f.ret # Null THEN PlaceAndReturn(f, f.ret, asize, f.path)
  ELSE
    Then(extend_heap(f, MAX(asize, CHUNKSIZE) \div WSIZE), LAMBDA e :
      IF e.st # "ok" THEN e
      ELSE IF e.ret = Null THEN [e EXCEPT !.path = "fail"]
      ELSE PlaceAndReturn(e, e.ret, asize, "extend"))

mm_malloc(m, size) ==
  IF m.st # "ok" THEN m
  ELSE IF size = 0 THEN [m EXCEPT !.ret = Null, !.path = "zero"]
  ELSE Fitted(find_fit(m, Adjust(size)), Adjust(size))

(* ---- mm_free ---- *)
mm_free(m0, bp) ==
  IF m0.st # "ok" \/ bp = Null THEN m0
  ELSE
    Then(Need(m0, {HDRP(bp)}), LAMBDA m :
    Then(GET_SIZE(m, HDRP(bp)), LAMBDA size :
    Then(PUT(m, HDRP(bp), PACK(size, 0)), LAMBDA m1 :
    Then(PUT(m1, FTRP(m1, bp), PACK(size, 0)), LAMBDA m2 :
      coalesce(m2, bp)))))

(* ---- memcpy ---- *)
\* the low k bytes of word src over word dst (little endian); every word
\* of the model is below 256^4
Merge(src, dst, k) ==
  IF k >= 4 THEN src
  ELSE LET b == IF k = 1 THEN 256 ELSE IF k = 2 THEN 65536 ELSE 16777216
       IN  (src % b) + (dst - (dst % b))

\* memcpy(dst, src, n), low addresses first.  The source words are read
\* from the current memory when fwd holds (a byte-by-byte forward copy)
\* and from the memory snap at the call otherwise (a copy through a
\* buffer); the two differ only when the ranges overlap, which the
\* C standard leaves undefined.
RECURSIVE memcpy(_, _, _, _, _, _)
memcpy(m, snap, fwd, dst, src, n) ==
  IF m.st # "ok" \/ n <= 0 THEN m
  ELSE IF ~Accessible(src) THEN Fault(m)
  ELSE LET s == IF fwd THEN GET(m, src) ELSE GET(snap, src)
       IN  IF n >= WSIZE
           THEN memcpy(Store(m, dst, s, WSIZE), snap, fwd,
                       dst + WSIZE, src + WSIZE, n - WSIZE)
           ELSE Store(m, dst, Merge(s, GET(m, dst), n), n)

(* ---- mm_realloc ---- *)
\* A size_t argument is hi * 2^31 + lo with 0 <= lo < 2^31.
\* (int)size keeps the low 32 bits and reads them as a signed number.
\* Past the two tests on (int)size the size is lo: the callers pass hi > 0
\* only with (int)size <= 0.
IntCast(hi, lo) == IF hi % 2 = 1 THEN lo - 2147483647 - 1 ELSE lo

\* the else branch of mm_realloc: malloc, place again, copy, free
realloc_move(m, bp, newsize, fwd) ==
  Then(mm_malloc(m, newsize), LAMBDA n :
  Then(place(n, n.ret, newsize), LAMBDA p1 :
  Then(memcpy(p1, p1, fwd, n.ret, bp, newsize), LAMBDA c :
  Then(mm_free(c, bp), LAMBDA f :
    [f EXCEPT !.ret = n.ret, !.path = "move"]))))

\* mm_realloc's branch for newsize > oldsize, m1 being the state after the
\* read of the next block's header
Grow(m1, bp, newsize, csize, fwd) ==
  IF m1.st # "ok" THEN m1
  ELSE IF GET_ALLOC(m1, HDRP(NEXT_BLK(m1, bp))) = 0 /\ csize >= newsize THEN
    Then(remove_from_free_list(m1, NEXT_BLK(m1, bp)), LAMBDA a1 :
    Then(PUT(a1, HDRP(bp), PACK(csize, 1)), LAMBDA a2 :
    Then(PUT(a2, FTRP(a2, bp), PACK(csize, 1)), LAMBDA a3 :
      [a3 EXCEPT !.ret = bp, !.path = "absorb"])))
  ELSE realloc_move(m1, bp, newsize, fwd)

\* mm_realloc with its in-place test newsize <= oldsize turned into
\* newsize == oldsize
mm_realloc_eq(m0, bp, hi, lo, fwd) ==
  IF IntCast(hi, lo) < 0 THEN [m0 EXCEPT !.ret = Null, !.path = "neg"]
  ELSE IF IntCast(hi, lo) = 0 THEN [mm_free(m0, bp) EXCEPT !.ret = Null, !.path = "zero"]
  ELSE
    Then(Need(m0, {HDRP(bp)}), LAMBDA m :
    Then(GET_SIZE(m, HDRP(bp)), LAMBDA oldsize :
      IF m.st # "ok" THEN m
      ELSE IF lo + 2 * WSIZE = oldsize THEN [m EXCEPT !.ret = bp, !.path = "inplace"]
      ELSE
        Then(Need(m, {HDRP(NEXT_BLK(m, bp))}), LAMBDA m1 :
          Grow(m1, bp, lo + 2 * WSIZE,
               oldsize + GET_SIZE(m1, HDRP(NEXT_BLK(m, bp))), fwd))))

mm_realloc(m0, bp, hi, lo, fwd) ==
  IF IntCast(hi, lo) < 0 THEN [m0 EXCEPT !.ret = Null, !.path = "neg"]
  ELSE IF IntCast(hi, lo) = 0 THEN [mm_free(m0, bp) EXCEPT !.ret = Null, !.path = "zero"]
  ELSE
    Then(Need(m0, {HDRP(bp)}), LAMBDA m :
    Then(GET_SIZE(m, HDRP(bp)), LAMBDA oldsize :
      IF m.st # "ok" THEN m
      ELSE IF lo + 2 * WSIZE <= oldsize THEN [m EXCEPT !.ret = bp, !.path = "inplace"]
      ELSE
        Then(Need(m, {HDRP(NEXT_BLK(m, bp))}), LAMBDA m1 :
          Grow(m1, bp, lo + 2 * WSIZE,
               oldsize + GET_SIZE(m1, HDRP(NEXT_BLK(m, bp))), fwd))))

(* ---- the caller ---- *)
\* the word a caller stores at address a: the word's offset in the region,
\* with the low bit set in every other word
DataWord(a) == (a - HeapBase) + ((a \div WSIZE) % 2)

\* the caller fills the n requested bytes at a
RECURSIVE Fill(_, _, _)
Fill(f, a, n) ==
  IF n <= 0 THEN f
  ELSE LET old == IF a \in DOMAIN f THEN f[a] ELSE junk
           v   == IF n >= WSIZE THEN DataWord(a) ELSE Merge(DataWord(a), old, n)
       IN  Fill([x \in (DOMAIN f) \cup {a} |-> IF x = a THEN v ELSE f[x]],
                a + WSIZE, n - WSIZE)

(* ---- state machine ---- *)
NoCall == [op |-> "none", p |-> Null, hi |-> 0, n |-> 0, ret |-> Null, path |-> "",
           wlog |-> {}, rlog |-> {}, dup |-> FALSE, fresh |-> FALSE]

\* the allocator state a call starts from
M0 == [mem |-> mem, fls |-> free_list_start, brk |-> brk, hlp |-> heap_listp,
       lms |-> last_malloced_size, rc |-> repeat_counter,
       st |-> "ok", ret |-> Null, path |-> "", wlog |-> {}, rlog |-> {}]

\* everything but the capacity of the region provider
Start ==
  /\ W \in WordSizes
  /\ junk \in JunkWords
  /\ mem = [a \in {} |-> 0]
  /\ brk = HeapBase
  /\ heap_listp = Null
  /\ free_list_start = Null
  /\ last_malloced_size = 0
  /\ repeat_counter = 0
  /\ phase = "start"
  /\ live = [a \in {} |-> 0]
  /\ fresh = {}
  /\ nops = 0
  /\ last = NoCall

Init == Start /\ limit = MaxHeap

\* the globals after a call that ended in m
Globals(m) ==
  /\ mem' = m.mem
  /\ brk' = m.brk
  /\ heap_listp' = m.hlp
  /\ free_list_start' = m.fls
  /\ last_malloced_size' = m.lms
  /\ repeat_counter' = m.rc
  /\ UNCHANGED <<W, junk, limit>>

Without(f, p) == [a \in (DOMAIN f) \ {p} |-> f[a]]
With(f, p, n) == [a \in (DOMAIN f) \cup {p} |-> IF a = p THEN n ELSE f[a]]

\* for a call of mm_malloc(n): the block that the call just before freed,
\* when that block came from mm_malloc(n) with the same n and mm_free left
\* it at the head of the free list; NULL otherwise
Refreed(n) ==
  IF last.op = "free" /\ last.fresh /\ last.n = n /\ free_list_start = last.p
  THEN last.p ELSE Null

MmInit ==
  /\ phase = "start"
  /\ \E m \in {mm_init(M0)} :
         /\ Globals(m)
         /\ phase' = IF m.st # "ok" THEN m.st
                     ELSE IF m.ret = 0 THEN "ready" ELSE "failed"
         /\ last' = [NoCall EXCEPT !.op = "init", !.ret = m.ret, !.wlog = m.wlog,
                                    !.rlog = m.rlog]
  /\ UNCHANGED <<live, fresh, nops>>

\* mm_malloc(n), however many blocks the caller holds
Alloc(n) ==
  /\ phase = "ready"
  /\ \E m \in {mm_malloc(M0, n)} :
         /\ Globals(m)
         /\ phase' = IF m.st = "ok" THEN "ready" ELSE m.st
         /\ live' = IF m.st = "ok" /\ m.ret # Null THEN With(live, m.ret, n) ELSE live
         /\ fresh' = IF m.st = "ok" /\ m.ret # Null THEN fresh \cup {m.ret} ELSE fresh
         /\ last' = [op |-> "malloc", p |-> Refreed(n), hi |-> 0, n |-> n, ret |-> m.ret,
                     path |-> m.path, wlog |-> m.wlog, rlog |-> m.rlog, dup |-> m.ret \in DOMAIN live,
                     fresh |-> FALSE]
  /\ nops' = nops + 1

Malloc(n) == Cardinality(DOMAIN live) < MaxLive /\ Alloc(n)

Free(p) ==
  /\ phase = "ready"
  /\ p \in DOMAIN live
  /\ \E m \in {mm_free(M0, p)} :
         /\ Globals(m)
         /\ phase' = IF m.st = "ok" THEN "ready" ELSE m.st
         /\ live' = IF m.st = "ok" THEN Without(live, p) ELSE live
         /\ fresh' = IF m.st = "ok" THEN fresh \ {p} ELSE fresh
         /\ last' = [op |-> "free", p |-> p, hi |-> 0, n |-> live[p], ret |-> Null,
                     path |-> "", wlog |-> m.wlog, rlog |-> m.rlog, dup |-> FALSE, fresh |-> p \in fresh]
  /\ nops' = nops + 1

Realloc(p, n, fwd) ==
  /\ phase = "ready"
  /\ p \in DOMAIN live
  /\ \E m \in {mm_realloc(M0, p, 0, n, fwd)} :
         /\ Globals(m)
         /\ phase' = IF m.st = "ok" THEN "ready" ELSE m.st
         /\ live' = IF m.st # "ok" \/ m.path = "neg" THEN live
                    ELSE IF m.ret = Null THEN Without(live, p)
                    ELSE With(Without(live, p), m.ret, n)
         /\ fresh' = IF m.st # "ok" \/ m.path = "neg" THEN fresh ELSE fresh \ {p, m.ret}
         /\ last' = [op |-> "realloc", p |-> p, hi |-> 0, n |-> n, ret |-> m.ret,
                     path |-> m.path, wlog |-> m.wlog, rlog |-> m.rlog,
                     dup |-> m.ret \in (DOMAIN live) \ {p},
                     fresh |-> FALSE]
  /\ nops' = nops + 1

\* mm_realloc(NULL, n)
ReallocNull(n) ==
  /\ phase = "ready"
  /\ \E m \in {mm_realloc(M0, Null, 0, n, TRUE)} :
         /\ Globals(m)
         /\ phase' = IF m.st = "ok" THEN "ready" ELSE m.st
         /\ live' = IF m.st = "ok" /\ m.ret # Null THEN With(live, m.ret, n) ELSE live
         /\ fresh' = fresh \ {m.ret}
         /\ last' = [op |-> "realloc", p |-> Null, hi |-> 0, n |-> n, ret |-> m.ret,
                     path |-> m.path, wlog |-> m.wlog, rlog |-> m.rlog, dup |-> m.ret \in DOMAIN live,
                     fresh |-> FALSE]
  /\ nops' = nops + 1

\* mm_realloc(p, size) with size = hi * 2^31 + lo >= 2^31, a value that
\* size_t holds (hi < 2 on the 32-bit target) and that (int)size reads as
\* zero or negative
ReallocWide(p, hi, lo) ==
  /\ phase = "ready"
  /\ p \in DOMAIN live
  /\ hi > 0 /\ (WSIZE = 4 => hi < 2)
  /\ IntCast(hi, lo) <= 0
  /\ \E m \in {mm_realloc(M0, p, hi, lo, TRUE)} :
         /\ Globals(m)
         /\ phase' = IF m.st = "ok" THEN "ready" ELSE m.st
         /\ live' = IF m.st # "ok" \/ m.path = "neg" THEN live ELSE Without(live, p)
         /\ fresh' = IF m.st # "ok" \/ m.path = "neg" THEN fresh ELSE fresh \ {p}
         /\ last' = [op |-> "realloc", p |-> p, hi |-> hi, n |-> lo, ret |-> m.ret,
                     path |-> m.path, wlog |-> m.wlog, rlog |-> m.rlog, dup |-> FALSE,
                     fresh |-> FALSE]
  /\ nops' = nops + 1

\* the caller stores into a block it holds
Write(p) ==
  /\ phase = "ready"
  /\ p \in DOMAIN live
  /\ mem' = Fill(mem, p, live[p])
  /\ nops' = nops + 1
  /\ last' = [NoCall EXCEPT !.op = "write", !.p = p]
  /\ UNCHANGED <<W, junk, brk, limit, heap_listp, free_list_start, last_malloced_size,
                 repeat_counter, phase, live, fresh>>

\* the caller's steps in Spec
MallocCall  == nops < MaxOps /\ \E n \in MallocSizes : Malloc(n)
FreeCall    == nops < MaxOps /\ \E p \in DOMAIN live : Free(p)
ReallocCall == nops < MaxOps /\ \E p \in DOMAIN live, n \in ReallocSizes, fwd \in BOOLEAN :
                                  Realloc(p, n, fwd)
WriteStep   == nops < MaxOps /\ \E p \in DOMAIN live : Write(p)

Next ==
  \/ MmInit
  \/ MallocCall
  \/ FreeCall
  \/ ReallocCall
  \/ WriteStep

Spec == Init /\ [][Next]_vars

\* A provider that refuses early (the initial request of mm_init, its
\* request for the first block, or every request after those) and a caller
\* that also passes NULL and sizes of 2^31 and above to mm_realloc.
InitTight == Start /\ limit \in TightLimits

ReallocNullCall == nops < MaxOps /\ \E n \in NullSizes : ReallocNull(n)
ReallocWideCall == nops < MaxOps /\ \E p \in DOMAIN live, s \in WideSizes :
                                      ReallocWide(p, s[1], s[2])

NextTight ==
  \/ MmInit
  \/ MallocCall
  \/ FreeCall
  \/ ReallocCall
  \/ WriteStep
  \/ ReallocNullCall
  \/ ReallocWideCall

SpecTight == InitTight /\ [][NextTight]_vars

\* Longer runs of the build with 4-byte words over a region whose unwritten
\* words read as 1: fewer request sizes, and a caller that only calls.
InitDeep == Init /\ W = 4 /\ junk = 1

DeepMallocCall  == nops < MaxDeep /\ \E n \in DeepMalloc : Malloc(n)
DeepFreeCall    == nops < MaxDeep /\ \E p \in DOMAIN live : Free(p)
DeepReallocCall == nops < MaxDeep /\ \E p \in DOMAIN live, n \in DeepRealloc, fwd \in BOOLEAN :
                                       Realloc(p, n, fwd)

NextDeep ==
  \/ MmInit
  \/ DeepMallocCall
  \/ DeepFreeCall
  \/ DeepReallocCall

SpecDeep == InitDeep /\ [][NextDeep]_vars

\* A caller that repeats one request: RepeatRun calls of
\* mm_malloc(RepeatSize) in a row, and after them calls of mm_malloc with
\* either size and calls of mm_free on the blocks it got last, over a
\* provider that has room for one chunk only or for every request.
RepeatSize == 128
TailSizes == {1, RepeatSize}
RepeatLimits == {MaxHeap, RepeatHeap}

InitRepeat == Start /\ limit \in RepeatLimits

\* p is among the RecentLive highest blocks the caller holds
Recent(p) == Cardinality({q \in DOMAIN live : q > p}) < RecentLive

RunMallocCall  == nops < RepeatRun /\ Alloc(RepeatSize)
TailMallocCall == nops >= RepeatRun /\ nops < MaxRepeat /\ \E n \in TailSizes : Alloc(n)
TailFreeCall   == nops >= RepeatRun /\ nops < MaxRepeat /\
                    \E p \in DOMAIN live : Recent(p) /\ Free(p)

NextRepeat ==
  \/ MmInit
  \/ RunMallocCall
  \/ TailMallocCall
  \/ TailFreeCall

SpecRepeat == InitRepeat /\ [][NextRepeat]_vars

\* The caller of Spec without mm_realloc.
NextPlain ==
  \/ MmInit
  \/ MallocCall
  \/ FreeCall
  \/ WriteStep

SpecPlain == Init /\ [][NextPlain]_vars

(* ---- reading the heap in a state ---- *)
Cur == [mem |-> mem]

\* the memory after a step
Post == [mem |-> mem']

\* the lowest real block: mm_init's extend_heap(4) ends up right behind the
\* 8 words of the initial request
FirstBlk == heap_listp + InitWords * WSIZE

\* forward traversal by header sizes: the blocks visited from bp up to the
\* first header of size 0 or the end of the region
RECURSIVE BlocksFrom(_)
BlocksFrom(bp) ==
  IF bp >= brk \/ GET_SIZE(Cur, HDRP(bp)) <= 0 THEN <<>>
  ELSE <<bp>> \o BlocksFrom(NEXT_BLK(Cur, bp))

\* where that traversal stops
RECURSIVE WalkEnd(_)
WalkEnd(bp) ==
  IF bp >= brk \/ GET_SIZE(Cur, HDRP(bp)) <= 0 THEN bp
  ELSE WalkEnd(NEXT_BLK(Cur, bp))

RealBlocks == BlocksFrom(FirstBlk)
Range(s) == {s[i] : i \in 1..Len(s)}
FreeBlocks == {b \in Range(RealBlocks) : GET_ALLOC(Cur, HDRP(b)) = 0}

\* the blocks find_fit's loop visits from bp: it follows next pointers until
\* it meets a header marked allocated; cyc tells that it came back to a block
RECURSIVE ListFrom(_, _)
ListFrom(bp, acc) ==
  IF ~Accessible(HDRP(bp)) \/ GET_ALLOC(Cur, HDRP(bp)) # 0 THEN [seq |-> acc, cyc |-> FALSE]
  ELSE IF bp \in Range(acc) THEN [seq |-> acc, cyc |-> TRUE]
  ELSE ListFrom(GET_NEXT_PTR(Cur, bp), Append(acc, bp))

FreeList == ListFrom(free_list_start, <<>>)

Ready == phase = "ready"
\* the step is a public call that returned
Called == nops' = nops + 1 /\ phase' = "ready" /\ last'.op # "write"

(* ---- C1 ---- *)
\* C1: after init and after every call, the blocks reached from
\* free_list_start by next pointers are exactly the real blocks whose header
\* has alloc bit 0, each reached once.
FreeListIsFreeBlocks ==
  Ready => /\ ~FreeList.cyc
           /\ Range(FreeList.seq) = FreeBlocks

(* ---- C2 ---- *)
BlockWellFormed(b) ==
  /\ b % DSIZE = 0
  /\ GET(Cur, HDRP(b)) = GET(Cur, FTRP(Cur, b))
  /\ GET(Cur, HDRP(b)) = PACK(GET_SIZE(Cur, HDRP(b)), GET_ALLOC(Cur, HDRP(b)))
  /\ GET_SIZE(Cur, HDRP(b)) >= 4 * WSIZE

\* C2: after every call, every real block has a DSIZE-aligned payload
\* address, identical header and footer words, and a size that is a multiple
\* of DSIZE (no stray bits in the header) and at least 4 words.
BlocksWellFormed == Ready => \A b \in Range(RealBlocks) : BlockWellFormed(b)

(* ---- C3 ---- *)
\* C3: after every call, no two real blocks adjacent in address order are
\* both free.
NoAdjacentFree ==
  Ready => \A i \in 1..(Len(RealBlocks) - 1) :
             ~(GET_ALLOC(Cur, HDRP(RealBlocks[i])) = 0
               /\ GET_ALLOC(Cur, HDRP(RealBlocks[i + 1])) = 0)

(* ---- C4 ---- *)
RECURSIVE SumSizes(_, _)
SumSizes(s, i) == IF i > Len(s) THEN 0 ELSE GET_SIZE(Cur, HDRP(s[i])) + SumSizes(s, i + 1)

\* C4: stepping forward from the first real block by header sizes ends at
\* the epilogue header (size 0, allocated), the last word of the region,
\* and the sizes visited add up to the distance between the two headers.
WalkReachesEpilogue ==
  Ready => /\ WalkEnd(FirstBlk) = brk
           /\ GET(Cur, HDRP(brk)) = PACK(0, 1)
           /\ SumSizes(RealBlocks, 1) = HDRP(brk) - HDRP(FirstBlk)

(* ---- C5 ---- *)
\* C5: the requested byte ranges [p, p+n) of two distinct live blocks are
\* disjoint, and no call hands out an address the caller still holds.
LivePayloadsDisjoint ==
  Ready => /\ ~last.dup
           /\ \A p \in DOMAIN live, q \in DOMAIN live :
                p < q => p + live[p] <= q

(* ---- C6 ---- *)
\* the bytes [a, a+len) meet the bytes [q, q+n)
Meets(a, len, q, n) == a < q + n /\ q < a + len

\* C6: a call on another pointer stores nothing inside the requested bytes
\* of a block the caller holds before and after the call.
NoWriteIntoLive ==
  [][Called =>
       \A q \in (DOMAIN live) \cap (DOMAIN live') :
          (q # last'.p /\ q # last'.ret) =>
             \A w \in last'.wlog : ~Meets(w[1], w[2], q, live[q])]_vars

(* ---- C7 ---- *)
\* C7: a non-null result of malloc(n) or realloc(q, n), n > 0, is the payload
\* address of a block marked allocated with at least n bytes of payload.
ResultHoldsRequest ==
  [][(Called /\ last'.op \in {"malloc", "realloc"} /\ last'.n > 0 /\ last'.ret # Null) =>
       /\ GET_ALLOC(Post, HDRP(last'.ret)) = 1
       /\ GET_SIZE(Post, HDRP(last'.ret)) - 2 * WSIZE >= last'.n]_vars

(* ---- C8 ---- *)
\* the step is a call of reallocate with a positive size that returned
Reallocated == Called /\ last'.op = "realloc" /\ last'.hi = 0 /\ last'.n > 0

Min(a, b) == IF a < b THEN a ELSE b

\* the forward neighbour of p is free and large enough to absorb
NextAbsorbs(p, n) ==
  /\ GET_ALLOC(Cur, HDRP(NEXT_BLK(Cur, p))) = 0
  /\ GET_SIZE(Cur, HDRP(p)) + GET_SIZE(Cur, HDRP(NEXT_BLK(Cur, p))) >= n + 2 * WSIZE

\* reallocate(p, n) can be served neither in place nor by absorbing
MustMove(p, n) == n + 2 * WSIZE > GET_SIZE(Cur, HDRP(p)) /\ ~NextAbsorbs(p, n)

\* the whole words among the first len bytes at q after the step are the
\* words at p before it
SameWords(p, q, len) ==
  \A k \in 0..((len \div WSIZE) - 1) :
     GET(Post, q + k * WSIZE) = GET(Cur, p + k * WSIZE)

\* C8: reallocate(p, n) that can be served neither in place nor by absorbing
\* the forward neighbour returns q # p, the first min(old payload, n) bytes
\* at q are p's bytes before the call, and p's former block is marked free.
MoveKeepsContents ==
  [][(Reallocated /\ MustMove(last'.p, last'.n)) =>
       /\ last'.ret # last'.p
       /\ last'.ret # Null
       /\ SameWords(last'.p, last'.ret,
                    Min(GET_SIZE(Cur, HDRP(last'.p)) - 2 * WSIZE, last'.n))
       /\ GET_ALLOC(Post, HDRP(last'.p)) = 0]_vars

(* ---- C9 ---- *)
\* find_fit's walk in memory m from bp, as ListFrom
RECURSIVE ListIn(_, _, _)
ListIn(m, bp, acc) ==
  IF ~Accessible(HDRP(bp)) \/ GET_ALLOC(m, HDRP(bp)) # 0 THEN acc
  ELSE IF bp \in Range(acc) THEN acc
  ELSE ListIn(m, GET_NEXT_PTR(m, bp), Append(acc, bp))

\* the blocks on the free list after the step
FreeListAfter == Range(ListIn(Post, free_list_start', <<>>))

\* C9: reallocate(p, n) with n + 2W > oldsize and an absorbable forward
\* neighbour returns p; afterwards the neighbour is off the free list, p's
\* header and footer hold (oldsize + neighbour size, allocated), p's payload
\* words are unchanged, and every other real block keeps its header, its
\* footer and its place on or off the free list.
AbsorbFrame ==
  [][(Reallocated /\ last'.n + 2 * WSIZE > GET_SIZE(Cur, HDRP(last'.p))
        /\ NextAbsorbs(last'.p, last'.n)) =>
       LET p     == last'.p
           nb    == NEXT_BLK(Cur, p)
           csize == GET_SIZE(Cur, HDRP(p)) + GET_SIZE(Cur, HDRP(nb))
       IN  /\ last'.ret = p
           /\ nb \notin FreeListAfter
           /\ GET(Post, HDRP(p)) = PACK(csize, 1)
           /\ GET(Post, FTRP(Post, p)) = PACK(csize, 1)
           /\ SameWords(p, p, GET_SIZE(Cur, HDRP(p)) - 2 * WSIZE)
           /\ \A b \in Range(RealBlocks) \ {p, nb} :
                /\ GET(Post, HDRP(b)) = GET(Cur, HDRP(b))
                /\ GET(Post, FTRP(Cur, b)) = GET(Cur, FTRP(Cur, b))
                /\ (b \in FreeListAfter) = (b \in Range(FreeList.seq))]_vars

(* ---- C10 ---- *)
\* the step leaves the heap words, the free list head and both of
\* find_fit's counters alone
HeapUntouched ==
  /\ mem' = mem
  /\ brk' = brk
  /\ free_list_start' = free_list_start
  /\ repeat_counter' = repeat_counter
  /\ last_malloced_size' = last_malloced_size

\* the step is reallocate(p, k) on a live p with k no larger than the
\* payload of p's block
FitsInPlace ==
  /\ nops' = nops + 1
  /\ last'.op = "realloc" /\ last'.hi = 0 /\ last'.p \in DOMAIN live
  /\ last'.n <= GET_SIZE(Cur, HDRP(last'.p)) - 2 * WSIZE

\* C10 as stated: for every k <= size_of(hdr(p)) - 2W, k = 0 included,
\* reallocate(p, k) returns p and changes nothing.
InPlaceAnySize ==
  [][FitsInPlace => (phase' = "ready" /\ last'.ret = last'.p /\ HeapUntouched)]_vars

\* C10, for 0 < k: for every live p and every k with
\* 0 < k <= size_of(hdr(p)) - 2W, reallocate(p, k) returns p and changes no
\* heap word, no free-list pointer and neither counter of find_fit.
InPlacePositiveSize ==
  [][(FitsInPlace /\ last'.n > 0) =>
       (phase' = "ready" /\ last'.ret = last'.p /\ HeapUntouched)]_vars

\* a reallocate call was served in place
InPlaceServed ==
  /\ phase = "ready"
  /\ last.op = "realloc" /\ last.path = "inplace"
  /\ last.n > 0 /\ last.ret = last.p /\ last.p \in DOMAIN live

(* ---- C11 ---- *)
\* the step is the call reallocate(null, n) with n > 0
NullReallocated ==
  nops' = nops + 1 /\ last'.op = "realloc" /\ last'.p = Null /\ last'.n > 0

\* C11: reallocate(null, n) with n > 0 returns what allocate(n) returns from
\* the same state and leaves the heap words, the break, the free list head
\* and find_fit's counters as allocate(n) leaves them.
ReallocNullIsMalloc ==
  [][NullReallocated =>
       \E m \in {mm_malloc(M0, last'.n)} :
          /\ phase' = (IF m.st = "ok" THEN "ready" ELSE m.st)
          /\ last'.ret = m.ret
          /\ mem' = m.mem
          /\ brk' = m.brk
          /\ free_list_start' = m.fls
          /\ last_malloced_size' = m.lms
          /\ repeat_counter' = m.rc]_vars

(* ---- C12 ---- *)
\* the step is a call of reallocate on a block the caller holds
LiveReallocated ==
  nops' = nops + 1 /\ last'.op = "realloc" /\ last'.p \in DOMAIN live

\* the call returned null and left p's block marked free
FreedAndNull ==
  /\ phase' = "ready"
  /\ last'.ret = Null
  /\ GET_ALLOC(Post, HDRP(last'.p)) = 0

\* C12: for every size_t value of size, sizes of 2^31 and above included,
\* reallocate(p, size) on a live p frees p and returns null exactly when
\* size = 0, and a size that reads as a negative int returns null and
\* changes nothing.
ZeroSizeOnlyFrees ==
  [][LiveReallocated =>
       /\ FreedAndNull <=> (last'.hi = 0 /\ last'.n = 0)
       /\ IntCast(last'.hi, last'.n) < 0 =>
            (phase' = "ready" /\ last'.ret = Null /\ HeapUntouched /\ live' = live)]_vars

(* ---- C13 ---- *)
\* the step is a call of allocate(n) in which find_fit comes back with
\* nothing and the extension of max(asize, CHUNKSIZE) bytes that mm_malloc
\* then asks for is beyond what the provider is able to hand out
RefusedMalloc ==
  /\ nops' = nops + 1 /\ last'.op = "malloc" /\ last'.n > 0
  /\ \E f \in {find_fit(M0, Adjust(last'.n))} : f.st = "ok" /\ f.ret = Null
  /\ brk + MAX(Adjust(last'.n), CHUNKSIZE) > HeapBase + limit

\* C13: when the provider refuses every extension an allocate(n) call asks
\* for, the call returns null and leaves every heap word, the break, the
\* free list head and the links of the listed blocks as they were.
RefusedMallocChangesNothing ==
  [][RefusedMalloc =>
       /\ phase' = "ready"
       /\ last'.ret = Null
       /\ mem' = mem
       /\ brk' = brk
       /\ free_list_start' = free_list_start
       /\ last'.wlog = {}
       /\ live' = live]_vars

\* allocate has just returned null because the provider refused
MallocRefused ==
  /\ phase = "ready"
  /\ last.op = "malloc" /\ last.n > 0 /\ last.path = "fail" /\ last.ret = Null

(* ---- C14 ---- *)
\* the step is reallocate(p, n) on a live p that has to take the
\* allocate-and-copy path, and the allocate of that path finds no fit and
\* asks for an extension the provider is unable to grant
RefusedMove ==
  /\ LiveReallocated /\ last'.hi = 0 /\ last'.n > 0
  /\ MustMove(last'.p, last'.n)
  /\ \E f \in {find_fit(M0, Adjust(last'.n + 2 * WSIZE))} : f.st = "ok" /\ f.ret = Null
  /\ brk + MAX(Adjust(last'.n + 2 * WSIZE), CHUNKSIZE) > HeapBase + limit

\* C14: such a call returns null, leaves p's block allocated, and leaves
\* every heap word, the break and the free list head as they were.
RefusedMoveChangesNothing ==
  [][RefusedMove =>
       /\ phase' = "ready"
       /\ last'.ret = Null
       /\ GET_ALLOC(Post, HDRP(last'.p)) = 1
       /\ mem' = mem
       /\ brk' = brk
       /\ free_list_start' = free_list_start]_vars

(* ---- C15 ---- *)
\* init has just returned success
InitDone == phase = "ready" /\ last.op = "init" /\ last.ret = 0

\* the four words mm_init itself stores: pad, prologue header and footer,
\* and its first epilogue header
InitWritten == {heap_listp + k * WSIZE : k \in 0..3}

\* C15: after a successful init the free list head points to a free block
\* of exactly 4 words that lies behind the prologue and ends at the epilogue
\* header, the last word of the region; it is the only block on the free
\* list and the only real block: apart from mm_init's four words, the words
\* written are this block's header, link words and footer and the epilogue
\* header.
InitLeavesOneFreeBlock ==
  InitDone =>
    /\ free_list_start > heap_listp + 2 * WSIZE
    /\ GET(Cur, HDRP(free_list_start)) = PACK(4 * WSIZE, 0)
    /\ GET(Cur, FTRP(Cur, free_list_start)) = PACK(4 * WSIZE, 0)
    /\ NEXT_BLK(Cur, free_list_start) = brk
    /\ GET(Cur, HDRP(brk)) = PACK(0, 1)
    /\ FreeList = [seq |-> <<free_list_start>>, cyc |-> FALSE]
    /\ RealBlocks = <<free_list_start>>
    /\ (DOMAIN mem) \ InitWritten =
         {HDRP(free_list_start), free_list_start, free_list_start + WSIZE,
          FTRP(Cur, free_list_start), HDRP(brk)}

(* ---- C16 ---- *)
\* the step is a call of init during which the provider refuses the initial
\* region request or the request for the first free block
InitRefused ==
  /\ phase = "start" /\ phase' # "start"
  /\ limit < InitWords * WSIZE + MAX(FirstWords * WSIZE, MinExtend)

\* C16: init returns the error result whenever the provider refuses either
\* of its two requests, and then has written no heap word.
InitRefusalIsError ==
  [][InitRefused =>
       /\ phase' = "failed"
       /\ last'.ret = -1
       /\ mem' = mem]_vars

(* ---- C17 ---- *)
\* the step is allocate(n) straight after free(p), p having been obtained
\* from allocate(n) with the same n
MallocAfterFree ==
  /\ last.op = "free" /\ last.fresh /\ phase = "ready"
  /\ nops' = nops + 1 /\ last'.op = "malloc" /\ last'.n = last.n

\* C17 as stated: free(p) followed at once by allocate(n), n being the size
\* p was allocated for, returns p.
FreeThenMallocSame ==
  [][MallocAfterFree => (phase' = "ready" /\ last'.ret = last.p)]_vars

\* C17, when free(p) has left p at the head of the free list (coalesce did
\* not merge p into a free backward neighbour) and find_fit walks the list:
\* the allocate(n) that follows returns p.
FreeThenMallocSameAtHead ==
  [][(MallocAfterFree /\ free_list_start = last.p /\ last'.path # "escape") =>
       (phase' = "ready" /\ last'.ret = last.p)]_vars

\* allocate(n) has just returned the block that free left at the head of the
\* free list one call earlier
ReusedAfterFree ==
  /\ phase = "ready"
  /\ last.op = "malloc" /\ last.path = "walk"
  /\ last.p # Null /\ last.ret = last.p

(* ---- C18 ---- *)
\* the real blocks of the heap in m, by forward traversal from bp
RECURSIVE BlocksIn(_, _)
BlocksIn(m, bp) ==
  IF bp >= m.brk \/ GET_SIZE(m, HDRP(bp)) <= 0 THEN {}
  ELSE {bp} \cup BlocksIn(m, NEXT_BLK(m, bp))

\* the step is reallocate(p, n) on a live p taking the allocate-and-copy path
MoveTaken ==
  LiveReallocated /\ last'.hi = 0 /\ last'.n > 0 /\ MustMove(last'.p, last'.n)

\* place(bp, asize) run on the heap in m, where bp has just been served,
\* ends in a heap with the same size for bp, the same free list (head,
\* members, links) and the same header and footer for every other block
PlaceAgainKeeps(m, bp, asize) ==
  \A p1 \in {place(m, bp, asize)} :
     /\ p1.st = "ok"
     /\ GET_SIZE(p1, HDRP(bp)) = GET_SIZE(m, HDRP(bp))
     /\ p1.fls = m.fls
     /\ ListIn(p1, p1.fls, <<>>) = ListIn(m, m.fls, <<>>)
     /\ \A b \in Range(ListIn(m, m.fls, <<>>)) :
           /\ GET_NEXT_PTR(p1, b) = GET_NEXT_PTR(m, b)
           /\ GET_PREV_PTR(p1, b) = GET_PREV_PTR(m, b)
     /\ \A b \in BlocksIn(m, FirstBlk) \ {bp} :
           /\ GET(p1, HDRP(b)) = GET(m, HDRP(b))
           /\ GET(p1, FTRP(m, b)) = GET(m, FTRP(m, b))

\* C18: on reallocate's allocate-and-copy path the second call
\* place(new_ptr, newsize), made on the block allocate(newsize) has just
\* served, changes neither the new block's size nor the free list nor any
\* other block's header or footer.
SecondPlaceIsNoOp ==
  [][MoveTaken =>
       \A n \in {mm_malloc(M0, last'.n + 2 * WSIZE)} :
          (n.st = "ok" /\ n.ret # Null) =>
             PlaceAgainKeeps(n, n.ret, last'.n + 2 * WSIZE)]_vars

(* ---- C19 ---- *)
\* the word addresses of the region
RegionWords == {a \in heap_listp..(brk - 1) : (a - heap_listp) % WSIZE = 0}

\* the words of the block at b
BlockWords(b) ==
  {a \in RegionWords : HDRP(b) <= a /\ a < HDRP(b) + GET_SIZE(Cur, HDRP(b))}

\* pad, prologue header and footer, the words of the real blocks, and the
\* epilogue header
Owned ==
  {heap_listp, heap_listp + WSIZE, heap_listp + 2 * WSIZE}
    \cup UNION {BlockWords(b) : b \in Range(RealBlocks)}
    \cup {HDRP(brk)}

\* C19: every word of the region is the pad, a prologue word, a word of
\* exactly one real block or the epilogue header, so that no region word
\* lies between the prologue and the first real block.
EveryWordOwned ==
  Ready => /\ RegionWords = Owned
           /\ Cardinality(RegionWords) = 4 + (SumSizes(RealBlocks, 1) \div WSIZE)

(* ---- C20 ---- *)
\* C20: the word coalesce reads as the backward neighbour's footer has been
\* written before, and when coalesce runs on the lowest real block that word
\* is the prologue footer.
CoalesceReadsWrittenFooter ==
  \A r \in last.rlog :
     /\ r[3]
     /\ r[1] = FirstBlk => r[2] = heap_listp + 2 * WSIZE

(* ---- C21 ---- *)
\* the two words of the prologue
PrologueWords == {heap_listp + WSIZE, heap_listp + 2 * WSIZE}

\* C21: in every state between calls the prologue header and footer hold
\* (DSIZE, allocated) and the epilogue header holds (0, allocated), and no
\* call after init stores into the prologue.
SentinelsIntact ==
  Ready => /\ GET(Cur, heap_listp + WSIZE) = PACK(DSIZE, 1)
           /\ GET(Cur, heap_listp + 2 * WSIZE) = PACK(DSIZE, 1)
           /\ GET(Cur, HDRP(brk)) = PACK(0, 1)
           /\ last.op # "init" => \A w \in last.wlog : w[1] \notin PrologueWords

(* ---- C22 ---- *)
\* the last element of a non-empty sequence
Last(s) == s[Len(s)]

\* prev of the head is null, and prev(next(x)) = x along the list
LinksAgree ==
  /\ FreeList.seq # <<>> => GET_PREV_PTR(Cur, FreeList.seq[1]) = Null
  /\ \A i \in 1..(Len(FreeList.seq) - 1) :
        GET_PREV_PTR(Cur, GET_NEXT_PTR(Cur, FreeList.seq[i])) = FreeList.seq[i]

\* C22 as stated: the free list is a doubly-linked list whose last block
\* has a null next pointer.
ListEndsInNull ==
  Ready => /\ ~FreeList.cyc
           /\ LinksAgree
           /\ FreeList.seq # <<>> => GET_NEXT_PTR(Cur, Last(FreeList.seq)) = Null

\* C22, with the end of the list as the code has it: the next pointer of
\* the last listed block is the address of the prologue footer, the block
\* pointer of the prologue, whose header is marked allocated.
ListEndsInPrologue ==
  Ready => /\ ~FreeList.cyc
           /\ LinksAgree
           /\ FreeList.seq # <<>> =>
                GET_NEXT_PTR(Cur, Last(FreeList.seq)) = heap_listp + 2 * WSIZE

(* ---- C23 ---- *)
\* the step is a call of mm_malloc that reaches find_fit
Searches == phase = "ready" /\ last'.op = "malloc" /\ last'.n > 0

\* find_fit, called in the state before the step, skips the walk of the list
Bypassed == find_fit(M0, Adjust(last'.n)).path = "escape"

\* C23: find_fit skips the walk exactly when the adjusted size equals
\* last_malloced_size and repeat_counter, counted up for this call, is
\* above 30; a call with another adjusted size sets repeat_counter to 0 and
\* walks the list; and in a run of nothing but mm_malloc(128) call number
\* RepeatRun, which is later than the 31st, skips the walk.
BypassWhenCounted ==
  [][Searches =>
       /\ Bypassed <=> /\ Adjust(last'.n) = last_malloced_size
                       /\ repeat_counter + 1 > RepeatLimit
       /\ Adjust(last'.n) # last_malloced_size =>
            /\ ~Bypassed
            /\ phase' = "ready" => repeat_counter' = 0
       /\ nops' = RepeatRun => Bypassed]_vars

\* the rule of C23 with the test the code makes: repeat_counter is compared
\* before it is counted up
BypassWhenAbove ==
  [][Searches =>
       /\ Bypassed <=> /\ Adjust(last'.n) = last_malloced_size
                       /\ repeat_counter > RepeatLimit
       /\ Adjust(last'.n) # last_malloced_size =>
            /\ ~Bypassed
            /\ phase' = "ready" => repeat_counter' = 0
       /\ nops' = RepeatRun => Bypassed]_vars

(* ---- C24 ---- *)
\* the block f.ret that find_fit returned in f is free, on the free list
\* and of at least max(asize, 4W) bytes
EscapeBlockFits(f, asize) ==
  /\ GET_ALLOC(f, HDRP(f.ret)) = 0
  /\ f.ret \in Range(ListIn(f, f.fls, <<>>))
  /\ GET_SIZE(f, HDRP(f.ret)) >= MAX(asize, 4 * WSIZE)

\* the bytes by which a division by WSIZE would have the escape extend
BytesByWords(asize) ==
  extend_heap(M0, MAX(asize, 4 * WSIZE) \div WSIZE).brk - brk

\* the step is a call of mm_malloc whose find_fit skips the walk and gets
\* a block from extend_heap
EscapeServed(f) ==
  Searches /\ f.path = "escape" /\ f.st = "ok" /\ f.ret # Null

\* C24 as stated: the block the escape returns is a free block on the free
\* list of at least max(asize, 4W) bytes, and with W = 8 the escape extends
\* the region by fewer bytes than a division by WSIZE would.
EscapeExtendsLess ==
  [][\A f \in {find_fit(M0, Adjust(last'.n))} :
       EscapeServed(f) =>
         /\ EscapeBlockFits(f, Adjust(last'.n))
         /\ WSIZE = 8 => f.brk - brk < BytesByWords(Adjust(last'.n))]_vars

\* C24, with the direction the code has: the block the escape returns is a
\* free block on the free list of at least max(asize, 4W) bytes; with
\* W = 8 the escape extends the region by twice the bytes that a division
\* by WSIZE would, and with W = 4 by the same bytes.
EscapeExtendsMore ==
  [][\A f \in {find_fit(M0, Adjust(last'.n))} :
       EscapeServed(f) =>
         /\ EscapeBlockFits(f, Adjust(last'.n))
         /\ WSIZE = 8 => f.brk - brk = 2 * BytesByWords(Adjust(last'.n))
         /\ WSIZE = 4 => f.brk - brk = BytesByWords(Adjust(last'.n))]_vars

\* a call of mm_malloc on the build with 8-byte words was served by the escape
EscapedWide ==
  Ready /\ WSIZE = 8 /\ last.op = "malloc" /\ last.path = "escape" /\ last.ret # Null

(* ---- C25 ---- *)
\* the positions of the list at which a block of at least asize bytes stands
Fits(asize) ==
  {i \in 1..Len(FreeList.seq) : GET_SIZE(Cur, HDRP(FreeList.seq[i])) >= asize}

\* the first block of the list, in next-pointer order, of at least asize
\* bytes; NULL when the list has none
FirstFit(asize) ==
  IF Fits(asize) = {} THEN Null
  ELSE FreeList.seq[CHOOSE i \in Fits(asize) : \A j \in Fits(asize) : i <= j]

\* C25: a find_fit that walks the list returns the first listed block, in
\* next-pointer order from free_list_start, of at least asize bytes, and
\* NULL only when the list has no such block; it sets last_malloced_size to
\* asize when it found a block and leaves it alone otherwise.
WalkIsFirstFit ==
  [][\A f \in {find_fit(M0, Adjust(last'.n))} :
       (Searches /\ f.path = "walk" /\ f.st = "ok") =>
         /\ f.ret = FirstFit(Adjust(last'.n))
         /\ f.ret = Null => Fits(Adjust(last'.n)) = {}
         /\ f.lms = IF f.ret # Null THEN Adjust(last'.n) ELSE last_malloced_size]_vars

\* a walk has passed a listed block: the block that mm_malloc returned was
\* found by the walk and still holds, in its first payload word, the
\* address of the block that stood before it on the list
WalkedPastSmall ==
  /\ Ready /\ last.op = "malloc" /\ last.path = "walk" /\ last.ret # Null
  /\ last_malloced_size = Adjust(last.n)
  /\ GET_PREV_PTR(Cur, last.ret) \in FreeBlocks
  /\ GET_SIZE(Cur, HDRP(GET_PREV_PTR(Cur, last.ret))) < Adjust(last.n)

(* ---- C26 ---- *)
\* C26: every call made in a state reached by calls returns, and the walk
\* of the free list from free_list_start by next pointers meets an
\* allocated header without coming back to a block: no call is left in a
\* loop that never ends, and the list has no cycle.
CallsTerminate ==
  /\ phase # "hung"
  /\ Ready => ~FreeList.cyc

(* ---- C27 ---- *)
\* the step is a call of mm_malloc(n), n > 0, that returned NULL
MallocNull == Searches /\ phase' = "ready" /\ last'.ret = Null

\* C27 as stated: mm_malloc(n) with n > 0 returns NULL only if no block on
\* the free list has at least the adjusted size of n.
NullOnlyWithoutFit ==
  [][MallocNull => Fits(Adjust(last'.n)) = {}]_vars

\* C27, for the calls whose find_fit walks the list: mm_malloc(n) with
\* n > 0 whose find_fit does not take the repeat-pattern escape returns
\* NULL only if no block on the free list has at least the adjusted size
\* of n.
NullOnlyWithoutFitOnWalk ==
  [][(MallocNull /\ ~Bypassed) => Fits(Adjust(last'.n)) = {}]_vars

\* mm_malloc(n), n > 0, walked the list and returned NULL: the provider
\* refused the extension
WalkedAndRefused ==
  /\ Ready /\ last.op = "malloc" /\ last.n > 0 /\ last.ret = Null
  /\ last.path = "fail" /\ repeat_counter <= RepeatLimit

(* ---- C28 ---- *)
\* C28: over a region whose words all read 0 at the start, after every
\* call of a run of mm_init, mm_malloc and mm_free the blocks reached from
\* free_list_start by next pointers are exactly the real blocks whose
\* header has alloc bit 0, also after a mm_malloc served by the
\* repeat-pattern escape.
PlainRunsKeepList ==
  (Ready /\ junk = 0) => /\ ~FreeList.cyc
                         /\ Range(FreeList.seq) = FreeBlocks
                         /\ Len(FreeList.seq) = Cardinality(FreeBlocks)

\* a mm_malloc served by the escape, over zeroed memory, has returned with
\* two free blocks or more in the region
EscapedAmongFree ==
  /\ Ready /\ junk = 0
  /\ last.op = "malloc" /\ last.path = "escape" /\ last.ret # Null
  /\ Cardinality(FreeBlocks) >= 2

\* place never sees a block smaller than the size it is asked to place
NoWrap == phase # "wrapped"
====
